---- MODULE Spec2Model ----
(***************************************************************************)
(* A model of ta-3do-to-obj: the 3DO object-tree traversal that writes the *)
(* .obj and .mtl files (src/src/main.rs) and the GAF texture extraction    *)
(* with its scanline decoder (src/src/gaf_extractor.rs).                   *)
(***************************************************************************)
EXTENDS Integers, Sequences, FiniteSets, TLC

VARIABLES
    objects,              \* the .3do buffer: TagObject (with its arrays) by offset
    stack,                \* the active calls of traverse, innermost last
    obj_out,              \* the lines written to obj_writter
    n_verticies_written,  \* main's counter, passed by reference
    used_colours,         \* Vec<[u8; 3]>
    used_textures,        \* Vec<String>
    mtl_out,              \* the lines written to mtl_writter
    pc,                   \* where main is
    gaf_folder,           \* ./gaf_textures/: whether it can be read, and its files
    gaf_at,               \* extract_textures_from_gafs: the file and the entry pointer at hand
    last_image,           \* what the last call of read_image read, built and returned
    textures_folder,      \* ./textures/: the .bmp saved under each name
    overflow_checks       \* whether the build checks integer overflow (debug) or wraps (release)

vars == <<objects, stack, obj_out, n_verticies_written, used_colours,
          used_textures, mtl_out, pc, gaf_folder, gaf_at, last_image,
          textures_folder, overflow_checks>>

gafVars == <<gaf_folder, gaf_at, last_image, textures_folder, overflow_checks>>

meshVars == <<objects, stack, obj_out, n_verticies_written, used_colours,
              used_textures, mtl_out>>

----------------------------------------------------------------------------
(* Bounds of the model *)

NumNodes == 3
MaxVerts == 2
MaxPrims == 2
MaxTokens == 3
MaxFiles == 2
MaxEntries == 2

(* Program constants *)

SCALE_FACTOR == 1000

Nodes == 0 .. (NumNodes - 1)
MaxCalls == NumNodes + 2

----------------------------------------------------------------------------
(* Helpers *)

RECURSIVE SeqsUpTo(_, _)
SeqsUpTo(S, n) ==
    IF n = 0 THEN {<<>>}
    ELSE LET shorter == SeqsUpTo(S, n - 1)
         IN  shorter \cup {Append(s, x) : s \in {t \in shorter : Len(t) = n - 1}, x \in S}

RECURSIVE Flatten(_)
Flatten(ss) == IF ss = <<>> THEN <<>> ELSE Head(ss) \o Flatten(Tail(ss))

\* Rust's integer division truncates toward zero
TruncDiv(a, b) == IF a >= 0 THEN a \div b ELSE -((-a) \div b)

ObjectNames == <<"base", "arm", "gun", "wheel", "door", "pad", "nano", "flare">>

NameAt(n) == ObjectNames[(n % Len(ObjectNames)) + 1]

\* the palette module is not among the sources: 256 fixed RGB triples
PALETTE(i) == <<i, (i * 7) % 256, 255 - i>>

\* injective name of a colour
colour_name(colour) == colour

Line(k, name, rgb, xyz, idx) ==
    [k |-> k, name |-> name, rgb |-> rgb, xyz |-> xyz, idx |-> idx]

BlankLine == Line("", "", <<>>, <<>>, <<>>)

----------------------------------------------------------------------------
(* diplay_data *)

\* diplay_data without its test for the primitive that is not rendered
NeverSkipped(p) == FALSE

\* main.rs:231
IsSkipped(p) == p.is_colored = 0 /\ p.offset_to_texture_name = ""

\* main.rs:235
IsTextured(p) == p.offset_to_texture_name # ""

\* the index without the vertexes written before
VertexRefLocal(written, vertex_index) == vertex_index + 1

\* main.rs:259
VertexRef(written, vertex_index) == written + vertex_index + 1

\* main.rs:249-265
FaceLine(p, written) ==
    Line("f", "", <<>>, <<>>,
         [j \in 1 .. Len(p.vertex_index_array) |->
            <<VertexRef(written, p.vertex_index_array[j]), (j - 1) + 1>>])

\* main.rs:215-226
VertexLine(v, offset) ==
    Line("v", "", <<>>,
         << TruncDiv(-(offset[1] + v[1]), SCALE_FACTOR),
            TruncDiv(offset[2] + v[2], SCALE_FACTOR),
            TruncDiv(offset[3] + v[3], SCALE_FACTOR) >>,
         <<>>)

\* a push that keeps one entry per material
PushDistinct(used, x) ==
    IF \E i \in 1 .. Len(used) : used[i] = x THEN used ELSE Append(used, x)

\* main.rs:239, 246
Push(used, x) == Append(used, x)

\* main.rs:229-266, the loop over the primitives; acc = [lines, colours, textures]
RECURSIVE WritePrimitives(_, _, _, _)
WritePrimitives(prims, i, written, acc) ==
    IF i > Len(prims) THEN acc
    ELSE LET p == prims[i]
         IN  IF IsSkipped(p) THEN WritePrimitives(prims, i + 1, written, acc)
             ELSE IF IsTextured(p) THEN
                 WritePrimitives(prims, i + 1, written,
                     [lines |-> acc.lines
                          \o << Line("usemtl", p.offset_to_texture_name, <<>>, <<>>, <<>>),
                                FaceLine(p, written) >>,
                      colours |-> acc.colours,
                      textures |-> Push(acc.textures, p.offset_to_texture_name)])
             ELSE
                 LET colour == PALETTE(p.color_index)
                 IN  WritePrimitives(prims, i + 1, written,
                         [lines |-> acc.lines
                              \o << Line("usemtl", "", colour_name(colour), <<>>, <<>>),
                                    FaceLine(p, written) >>,
                          colours |-> Push(acc.colours, colour),
                          textures |-> acc.textures])

\* main.rs:198-269
diplay_data(object, written, offset, colours, textures) ==
    LET header == << BlankLine, Line("o", object.name, <<>>, <<>>, <<>>) >>
        vlines == [j \in 1 .. Len(object.vertexes) |-> VertexLine(object.vertexes[j], offset)]
        faces  == WritePrimitives(object.primitives, 1, written,
                      [lines |-> <<>>, colours |-> colours, textures |-> textures])
    IN  [lines    |-> header \o vlines \o faces.lines,
         written  |-> written + Len(object.vertexes),
         colours  |-> faces.colours,
         textures |-> faces.textures]

----------------------------------------------------------------------------
(* traverse *)

AddOffset(a, b) == <<a[1] + b[1], a[2] + b[2], a[3] + b[3]>>

\* the sibling's offset read where the child's is meant
ChildLinkSwapped(object) == object.offset_to_sibling_object

\* main.rs:164-165
ChildLink(object) == object.offset_to_child_object

\* main.rs:181-182
SiblingLink(object) == object.offset_to_sibling_object

\* the sibling handed the current node's offset
SiblingOffsetOfCurrent(parent_offset, offset) == offset

\* main.rs:173
ChildOffset(parent_offset, offset) == offset

\* main.rs:190
SiblingOffset(parent_offset, offset) == parent_offset

Frame(at, parent_offset) ==
    [at |-> at, parent_offset |-> parent_offset,
     offset |-> AddOffset(parent_offset, objects[at].from_parent), at_line |-> "display"]

Top == stack[Len(stack)]

SetTop(f) == [stack EXCEPT ![Len(stack)] = f]

Pop == SubSeq(stack, 1, Len(stack) - 1)

\* the objects written so far, in order
VisitOrder == SelectSeq(obj_out, LAMBDA l : l.k = "o")

\* main.rs:146-161
TraverseDisplay ==
    /\ pc = "traverse"
    /\ stack # <<>>
    /\ Top.at_line = "display"
    /\ Len(VisitOrder) < MaxCalls
    /\ LET r == diplay_data(objects[Top.at], n_verticies_written, Top.offset,
                            used_colours, used_textures)
       IN  /\ obj_out' = obj_out \o r.lines
           /\ n_verticies_written' = r.written
           /\ used_colours' = r.colours
           /\ used_textures' = r.textures
    /\ stack' = SetTop([Top EXCEPT !.at_line = "child"])
    /\ UNCHANGED <<objects, mtl_out, pc, gafVars>>

\* main.rs:163-178
TraverseChild ==
    /\ pc = "traverse"
    /\ stack # <<>>
    /\ Top.at_line = "child"
    /\ stack' =
         IF ChildLink(objects[Top.at]) # 0
         THEN Append(SetTop([Top EXCEPT !.at_line = "sibling"]),
                     Frame(ChildLink(objects[Top.at]),
                           ChildOffset(Top.parent_offset, Top.offset)))
         ELSE SetTop([Top EXCEPT !.at_line = "sibling"])
    /\ UNCHANGED <<objects, obj_out, n_verticies_written, used_colours,
                   used_textures, mtl_out, pc, gafVars>>

\* main.rs:180-195
TraverseSibling ==
    /\ pc = "traverse"
    /\ stack # <<>>
    /\ Top.at_line = "sibling"
    /\ stack' =
         IF SiblingLink(objects[Top.at]) # 0
         THEN Append(SetTop([Top EXCEPT !.at_line = "return"]),
                     Frame(SiblingLink(objects[Top.at]),
                           SiblingOffset(Top.parent_offset, Top.offset)))
         ELSE SetTop([Top EXCEPT !.at_line = "return"])
    /\ UNCHANGED <<objects, obj_out, n_verticies_written, used_colours,
                   used_textures, mtl_out, pc, gafVars>>

\* main.rs:196
TraverseReturn ==
    /\ pc = "traverse"
    /\ stack # <<>>
    /\ Top.at_line = "return"
    /\ stack' = Pop
    /\ UNCHANGED <<objects, obj_out, n_verticies_written, used_colours,
                   used_textures, mtl_out, pc, gafVars>>

----------------------------------------------------------------------------
(* main *)

\* main.rs:285-290
ObjHeader ==
    << Line("mtllib", "model.mtl", <<>>, <<>>, <<>>),
       BlankLine,
       Line("vt", "", <<>>, <<0, 1>>, <<>>),
       Line("vt", "", <<>>, <<1, 1>>, <<>>),
       Line("vt", "", <<>>, <<1, 0>>, <<>>),
       Line("vt", "", <<>>, <<0, 0>>, <<>>) >>

\* main.rs:313-321
ColourBlock(colour) ==
    << Line("newmtl", "", colour_name(colour), <<>>, <<>>),
       Line("Kd", "", colour, <<>>, <<>>),
       BlankLine >>

\* main.rs:323-327
TextureBlock(texture) ==
    << Line("newmtl", texture, <<>>, <<>>, <<>>),
       Line("map_Kd", texture, <<>>, <<>>, <<>>),
       BlankLine >>

\* main.rs:309-328
WriteMtl ==
    /\ pc = "traverse"
    /\ stack = <<>>
    /\ mtl_out' = Flatten([i \in 1 .. Len(used_colours) |-> ColourBlock(used_colours[i])])
                   \o Flatten([i \in 1 .. Len(used_textures) |-> TextureBlock(used_textures[i])])
    /\ pc' = "gafs"
    /\ UNCHANGED <<objects, stack, obj_out, n_verticies_written, used_colours,
                   used_textures, gafVars>>

NextMesh ==
    \/ TraverseDisplay
    \/ TraverseChild
    \/ TraverseSibling
    \/ TraverseReturn
    \/ WriteMtl

----------------------------------------------------------------------------
(* Buffer (main.rs:23-52) over a .gaf file.  A file is its first bytes,      *)
(* written out, and a length; the bytes past the written ones are            *)
(* (pad + index) mod 251.                                                     *)

Buffer(bytes, len, pad) == [bytes |-> bytes, len |-> len, pad |-> pad]

ByteAt(buf, i) == IF i < Len(buf.bytes) THEN buf.bytes[i + 1] ELSE (buf.pad + i) % 251

\* main.rs:40-42: the slice panics past the end of the data
CanRead(buf, cursor, n_bytes) == cursor + n_bytes <= buf.len

Read(buf, cursor, n_bytes) == [j \in 1 .. n_bytes |-> ByteAt(buf, cursor + j - 1)]

\* read_struct::<u16>, little-endian
ReadU16(buf, cursor) == ByteAt(buf, cursor) + 256 * ByteAt(buf, cursor + 1)

Repeat(byte, n) == [j \in 1 .. n |-> byte]

NoImage == [status |-> "none", raw |-> <<>>, cursor |-> 0, lines |-> <<>>, pixels |-> <<>>]

----------------------------------------------------------------------------
(* read_image *)

\* u16 * u16: past 65535 it panics when the build checks overflow and wraps
\* when it does not
Mul16(a, b, checks) ==
    IF a * b < 65536 THEN [ok |-> TRUE, value |-> a * b]
    ELSE IF checks THEN [ok |-> FALSE, value |-> 0]
    ELSE [ok |-> TRUE, value |-> (a * b) % 65536]

\* one repeat more
RepeatCountPlusOne(mask) == (mask \div 4) + 2

\* gaf_extractor.rs:77, (mask >> 2) + 1
RepeatCount(mask) == (mask \div 4) + 1

\* gaf_extractor.rs:81, (mask & 0x02) + 1
LiteralCount(mask) == ((mask \div 2) % 2) * 2 + 1

\* gaf_extractor.rs:82-84, the literal bytes, one read each
RECURSIVE ReadLiteral(_, _, _, _)
ReadLiteral(buf, cursor, raw, n) ==
    IF n = 0 THEN [status |-> "ok", cursor |-> cursor, raw |-> raw]
    ELSE IF ~CanRead(buf, cursor, 1) THEN [status |-> "panic", cursor |-> cursor, raw |-> raw]
    ELSE ReadLiteral(buf, cursor + 1, Append(raw, ByteAt(buf, cursor)), n - 1)

\* gaf_extractor.rs:67-86, one control byte
DecodeControl(buf, cursor, raw) ==
    IF ~CanRead(buf, cursor, 1) THEN [status |-> "panic", cursor |-> cursor, raw |-> raw]
    ELSE LET mask == ByteAt(buf, cursor)
         IN  IF mask % 2 = 1
             THEN [status |-> "ok", cursor |-> cursor + 1,
                   raw |-> raw \o Repeat(0, mask \div 2)]
             ELSE IF (mask \div 2) % 2 = 1
             THEN IF ~CanRead(buf, cursor + 1, 1)
                  THEN [status |-> "panic", cursor |-> cursor + 1, raw |-> raw]
                  ELSE [status |-> "ok", cursor |-> cursor + 2,
                        raw |-> raw \o Repeat(ByteAt(buf, cursor + 1), RepeatCount(mask))]
             ELSE ReadLiteral(buf, cursor + 1, raw, LiteralCount(mask))

\* a scanline that ends when its width is reconstructed
LineDoneAtWidth(decoded, line_bytes, pixels, width) == pixels >= width

\* gaf_extractor.rs:66, for _ in 0..line_bytes
LineDone(decoded, line_bytes, pixels, width) == decoded >= line_bytes

\* gaf_extractor.rs:66-87, the control bytes of one scanline
RECURSIVE DecodeLine(_, _, _, _, _, _, _)
DecodeLine(buf, cursor, raw, decoded, line_bytes, from, width) ==
    IF LineDone(decoded, line_bytes, Len(raw) - from, width)
    THEN [status |-> "ok", cursor |-> cursor, raw |-> raw, decoded |-> decoded]
    ELSE LET r == DecodeControl(buf, cursor, raw)
         IN  IF r.status = "panic"
             THEN [status |-> "panic", cursor |-> r.cursor, raw |-> r.raw, decoded |-> decoded]
             ELSE DecodeLine(buf, r.cursor, r.raw, decoded + 1, line_bytes, from, width)

\* what one scanline read and built
LineRecord(line_bytes, r, from) ==
    [line_bytes |-> line_bytes, decoded |-> r.decoded, pixels |-> Len(r.raw) - from,
     complete |-> r.status = "ok"]

\* gaf_extractor.rs:62-88, the scanlines
RECURSIVE DecodeLines(_, _, _, _, _, _)
DecodeLines(buf, cursor, raw, left, width, lines) ==
    IF left = 0 THEN [status |-> "ok", cursor |-> cursor, raw |-> raw, lines |-> lines]
    ELSE IF ~CanRead(buf, cursor, 2)
    THEN [status |-> "panic", cursor |-> cursor, raw |-> raw, lines |-> lines]
    ELSE LET line_bytes == ReadU16(buf, cursor)
             r == DecodeLine(buf, cursor + 2, raw, 0, line_bytes, Len(raw), width)
             done == Append(lines, LineRecord(line_bytes, r, Len(raw)))
         IN  IF r.status = "panic"
             THEN [status |-> "panic", cursor |-> r.cursor, raw |-> r.raw, lines |-> done]
             ELSE DecodeLines(buf, r.cursor, r.raw, left - 1, width, done)

\* gaf_extractor.rs:95-100, one set_pixel per index
SetPixels(raw, n, width) ==
    [j \in 1 .. n |-> [x |-> (j - 1) % width, y |-> (j - 1) \div width,
                       colour |-> PALETTE(raw[j])]]

\* gaf_extractor.rs:56-103
read_image(buf, cursor, width, height, compressed, checks) ==
    LET n == Mul16(width, height, checks)
        decoded ==
            IF compressed # 0 THEN DecodeLines(buf, cursor, <<>>, height, width, <<>>)
            ELSE IF ~n.ok \/ ~CanRead(buf, cursor, n.value)
            THEN [status |-> "panic", cursor |-> cursor, raw |-> <<>>, lines |-> <<>>]
            ELSE [status |-> "ok", cursor |-> cursor, raw |-> Read(buf, cursor, n.value),
                  lines |-> <<>>]
    IN  IF decoded.status = "panic" \/ ~n.ok \/ n.value > Len(decoded.raw)
        THEN [status |-> "panic", raw |-> decoded.raw, cursor |-> decoded.cursor,
              lines |-> decoded.lines, pixels |-> <<>>]
        ELSE [status |-> "ok", raw |-> decoded.raw, cursor |-> decoded.cursor,
              lines |-> decoded.lines, pixels |-> SetPixels(decoded.raw, n.value, width)]

----------------------------------------------------------------------------
(* extract_gaf and extract_textures_from_gafs.  A file of the folder is the  *)
(* entries its pointers lead to, in order; an entry is [name, frame]; a      *)
(* frame is what GafFrameData holds, the buffer its pointer goes into, and   *)
(* the frames its pointer array leads to.                                    *)

GafFrameData(width, height, compressed, buf, pointer, frame_pointers, subframes) ==
    [width |-> width, height |-> height, compressed |-> compressed, buf |-> buf,
     frame_data_pointer |-> pointer, frame_pointers |-> frame_pointers,
     subframes |-> subframes]

GafEntry(name, frame) == [name |-> name, frame |-> frame]

\* gaf_extractor.rs:126-135: with subframes, the first one
FrameOf(entry) ==
    IF entry.frame.frame_pointers > 0 THEN entry.frame.subframes[1] ELSE entry.frame

\* gaf_extractor.rs:137-143
ImageOf(entry, checks) ==
    LET f == FrameOf(entry)
    IN  read_image(f.buf, f.frame_data_pointer, f.width, f.height, f.compressed, checks)

Bmp(name, width, height, pixels) ==
    [name |-> name, width |-> width, height |-> height, pixels |-> pixels]

\* a save that leaves a file of that name alone
SaveUnlessThere(folder, bmp) ==
    IF \E f \in folder : f.name = bmp.name THEN folder ELSE folder \cup {bmp}

\* gaf_extractor.rs:144, the file of that name is written anew
Save(folder, bmp) == {f \in folder : f.name # bmp.name} \cup {bmp}

\* gaf_extractor.rs:122
Contains(used, name) == \E i \in 1 .. Len(used) : used[i] = name

\* gaf_extractor.rs:154-155, 161-163
ExtractStart ==
    /\ pc = "gafs"
    /\ pc' = IF gaf_folder.readable THEN "files" ELSE "done"
    /\ gaf_at' = [file |-> 0, entry |-> 0]
    /\ UNCHANGED <<meshVars, gaf_folder, last_image, textures_folder, overflow_checks>>

\* gaf_extractor.rs:156-159, 106-115: the next file, its header and its pointers
OpenGaf ==
    /\ pc = "files"
    /\ gaf_at.file < Len(gaf_folder.files)
    /\ gaf_at' = [file |-> gaf_at.file + 1, entry |-> 1]
    /\ pc' = IF gaf_folder.files[gaf_at.file + 1] = <<>> THEN "files" ELSE "entries"
    /\ UNCHANGED <<meshVars, gaf_folder, last_image, textures_folder, overflow_checks>>

\* gaf_extractor.rs:117-146, one entry pointer
ExtractEntry ==
    /\ pc = "entries"
    /\ LET file  == gaf_folder.files[gaf_at.file]
           entry == file[gaf_at.entry]
           next  == IF gaf_at.entry = Len(file) THEN "files" ELSE "entries"
       IN  IF Contains(used_textures, entry.name)
           THEN LET image == ImageOf(entry, overflow_checks)
                IN  /\ last_image' = image
                    /\ IF image.status = "panic"
                       THEN /\ pc' = "panic"
                            /\ UNCHANGED <<textures_folder, gaf_at>>
                       ELSE /\ textures_folder' =
                                   Save(textures_folder,
                                        Bmp(entry.name, FrameOf(entry).width,
                                            FrameOf(entry).height, image.pixels))
                            /\ gaf_at' = [gaf_at EXCEPT !.entry = @ + 1]
                            /\ pc' = next
           ELSE /\ gaf_at' = [gaf_at EXCEPT !.entry = @ + 1]
                /\ pc' = next
                /\ UNCHANGED <<last_image, textures_folder>>
    /\ UNCHANGED <<meshVars, gaf_folder, overflow_checks>>

\* gaf_extractor.rs:156-160, no file is left
FolderDone ==
    /\ pc = "files"
    /\ gaf_at.file = Len(gaf_folder.files)
    /\ pc' = "done"
    /\ UNCHANGED <<meshVars, gafVars>>

NextGaf ==
    \/ ExtractStart
    \/ OpenGaf
    \/ ExtractEntry
    \/ FolderDone

----------------------------------------------------------------------------
(* The .gaf inputs *)

\* main is through with the model; used_textures is what it hands over
MeshDone(textures) ==
    /\ objects = <<>>
    /\ stack = <<>>
    /\ obj_out = <<>>
    /\ n_verticies_written = 0
    /\ used_colours = <<>>
    /\ used_textures = textures
    /\ mtl_out = <<>>
    /\ pc = "gafs"
    /\ gaf_at = [file |-> 0, entry |-> 0]
    /\ last_image = NoImage
    /\ textures_folder = {}
    /\ overflow_checks \in BOOLEAN

\* a scanline: the 16-bit count, then the control bytes with their index bytes
Scanline(line_bytes, tokens) == <<line_bytes % 256, line_bytes \div 256>> \o Flatten(tokens)

\* skip two pixels; repeat index 7; one literal index 3
Tokens == { <<5>>, <<14, 7>>, <<0, 3>> }

CompressedFrames ==
    { GafFrameData(width, IF more = <<>> THEN 1 ELSE 2, 1,
                   Buffer(Scanline(count, tokens) \o more,
                          Len(Scanline(count, tokens) \o more), 0),
                   0, 0, <<>>) :
        width \in {3, 7, 8}, count \in 0 .. MaxTokens,
        tokens \in SeqsUpTo(Tokens, MaxTokens),
        more \in { <<>>, Scanline(1, << <<14, 7>> >>) } }

RawFrames ==
    { GafFrameData(width, height, 0, buf, pointer, 0, <<>>) :
        width \in {0, 1, 3, 256}, height \in {0, 1, 2, 256, 257},
        buf \in { Buffer(<<9, 8, 7>>, 70000, 3), Buffer(<<9, 8, 7, 6, 5>>, 5, 0) },
        pointer \in {0, 2} }

\* one file with one entry, of a needed name, over every frame
InitImage ==
    /\ \E frame \in CompressedFrames \cup RawFrames :
         gaf_folder = [readable |-> TRUE, files |-> << << GafEntry("T1", frame) >> >>]
    /\ MeshDone(<<"T1">>)

SpecImage == InitImage /\ [][NextGaf]_vars

Pixel1x1(index) ==
    GafFrameData(1, 1, 0, Buffer(<<index>>, 1, 0), 0, 0, <<>>)

\* entries of a needed name over two different images (one behind a pointer
\* array of two subframes) and an entry of a name that is not needed
EntryChoices ==
    { GafEntry("T1", Pixel1x1(1)),
      GafEntry("T1", GafFrameData(0, 0, 0, Buffer(<<>>, 0, 0), 0, 2,
                                  << Pixel1x1(2), Pixel1x1(3) >>)),
      GafEntry("X", Pixel1x1(1)) }

InitGaf ==
    /\ \/ gaf_folder = [readable |-> FALSE, files |-> <<>>]
       \/ \E files \in SeqsUpTo(SeqsUpTo(EntryChoices, MaxEntries), MaxFiles) :
            gaf_folder = [readable |-> TRUE, files |-> files]
    /\ MeshDone(<<"T1">>)

SpecGaf == InitGaf /\ [][NextGaf]_vars

----------------------------------------------------------------------------
(* The .3do inputs *)

Vertex(j) == <<1500 * j, -700 * j, 1000 * j - 2500>>

VertexArray(n) == [j \in 1 .. n |-> Vertex(j)]

FromParent(n) == <<1000 * (n + 1), -3000 * (n + 2), 2000 * (2 * n + 1)>>

Primitive(colour, indexes, texture, coloured) ==
    [color_index |-> colour, vertex_index_array |-> indexes,
     offset_to_texture_name |-> texture, is_colored |-> coloured]

TagObject(n, vertexes, primitives, sibling, child) ==
    [name |-> NameAt(n), vertexes |-> vertexes, primitives |-> primitives,
     from_parent |-> FromParent(n),
     offset_to_sibling_object |-> sibling, offset_to_child_object |-> child]

\* main.rs:292-307
MainStart ==
    /\ stack = << Frame(0, <<0, 0, 0>>) >>
    /\ obj_out = ObjHeader
    /\ n_verticies_written = 0
    /\ used_colours = <<>>
    /\ used_textures = <<>>
    /\ mtl_out = <<>>
    /\ pc = "traverse"
    /\ gaf_folder = [readable |-> FALSE, files |-> <<>>]
    /\ gaf_at = [file |-> 0, entry |-> 0]
    /\ last_image = NoImage
    /\ textures_folder = {}
    /\ overflow_checks = FALSE   \* no sum of the model's coordinates or counts overflows

----------------------------------------------------------------------------
(* The object tree, read off the links alone *)

Link(m, kind) ==
    IF kind = "child" THEN objects[m].offset_to_child_object
    ELSE objects[m].offset_to_sibling_object

Successors(S) == {Link(m, kind) : m \in S, kind \in {"child", "sibling"}} \ {0}

RECURSIVE ReachFrom(_)
ReachFrom(S) == IF Successors(S) \subseteq S THEN S ELSE ReachFrom(S \cup Successors(S))

Reach == ReachFrom({0})

\* the links that lead to node n
LinksTo(n) == {l \in Reach \X {"child", "sibling"} : Link(l[1], l[2]) = n}

\* the nodes reachable from the root form a tree: one link leads to each
FiniteTree == \A n \in Reach \ {0} : Cardinality(LinksTo(n)) = 1

\* some reachable node leads back to itself
Cyclic == \E n \in Reach : n \in ReachFrom(Successors({n}))

\* every child/sibling graph over the nodes (a node no link leads to is never
\* read: its own links are left 0); node n has (n + 2) mod (MaxVerts + 1)
\* vertexes and one face over all of them, textured on even nodes
TreePrimitives(n, nv) ==
    IF nv = 0 THEN <<>>
    ELSE << Primitive(n, [j \in 1 .. nv |-> nv - j],
                      IF n % 2 = 0 THEN "T1" ELSE "", 1) >>

InitTree ==
    /\ \E child \in [Nodes -> Nodes], sibling \in [Nodes -> Nodes] :
         objects = [n \in Nodes |->
                      LET nv == (n + 2) % (MaxVerts + 1)
                      IN  TagObject(n, VertexArray(nv), TreePrimitives(n, nv),
                                    sibling[n], child[n])]
    /\ \A n \in Nodes \ Reach :
         objects[n].offset_to_child_object = 0 /\ objects[n].offset_to_sibling_object = 0
    /\ MainStart

SpecTree == InitTree /\ [][NextMesh]_vars

SpecTreeFair == SpecTree /\ WF_vars(NextMesh)

\* a root and its child, each with any list of up to MaxPrims primitives: two
\* that are not rendered (one with a colour past the palette and an index past
\* the vertexes), textured ones (one of five vertexes, one also flagged
\* coloured) and coloured ones
PrimChoices ==
    { Primitive(5, <<0, 1, 0>>, "", 0),
      Primitive(300, <<7>>, "", 0),
      Primitive(0, <<0, 1, 0, 1, 0>>, "T1", 0),
      Primitive(5, <<1, 0, 1>>, "T2", 1),
      Primitive(5, <<0, 1, 0>>, "", 1),
      Primitive(9, <<1, 0, 1, 0>>, "", 1) }

InitFaces ==
    /\ \E rootPrims \in SeqsUpTo(PrimChoices, MaxPrims),
          childPrims \in SeqsUpTo(PrimChoices, MaxPrims) :
         objects = [n \in Nodes |->
                      IF n = 0 THEN TagObject(0, VertexArray(MaxVerts), rootPrims, 0, 1)
                      ELSE IF n = 1 THEN TagObject(1, VertexArray(1), childPrims, 0, 0)
                      ELSE TagObject(n, <<>>, <<>>, 0, 0)]
    /\ MainStart

SpecFaces == InitFaces /\ [][NextMesh]_vars

\* the offset a node receives: its parent's accumulated offset when it is a
\* child, what its elder sibling received when it is a sibling
RECURSIVE ReceivedOffset(_)
ReceivedOffset(n) ==
    IF n = 0 THEN <<0, 0, 0>>
    ELSE LET l == CHOOSE x \in LinksTo(n) : TRUE
         IN  IF l[2] = "child"
             THEN AddOffset(ReceivedOffset(l[1]), objects[l[1]].from_parent)
             ELSE ReceivedOffset(l[1])

AccumulatedOffset(n) == AddOffset(ReceivedOffset(n), objects[n].from_parent)

RECURSIVE Preorder(_)
Preorder(n) ==
    <<n>>
    \o (IF objects[n].offset_to_child_object # 0
        THEN Preorder(objects[n].offset_to_child_object) ELSE <<>>)
    \o (IF objects[n].offset_to_sibling_object # 0
        THEN Preorder(objects[n].offset_to_sibling_object) ELSE <<>>)

NodeNamed(name) == CHOOSE n \in Nodes : NameAt(n) = name

VisitNodes == [i \in 1 .. Len(VisitOrder) |-> NodeNamed(VisitOrder[i].name)]

\* where the object lines are in obj_out
ObjectLines == {i \in 1 .. Len(obj_out) : obj_out[i].k = "o"}

\* the lines of the kinds ks written for the object whose "o" line is line i
BlockOfKinds(i, ks) ==
    LET later == {j \in ObjectLines : j > i}
        last  == IF later = {} THEN Len(obj_out)
                 ELSE (CHOOSE j \in later : \A j2 \in later : j <= j2) - 1
    IN  SelectSeq(SubSeq(obj_out, i + 1, last), LAMBDA l : l.k \in ks)

BlockOf(i, k) == BlockOfKinds(i, {k})

RECURSIVE SumVerts(_, _)
SumVerts(nodes, upto) ==
    IF upto = 0 THEN 0
    ELSE Len(objects[nodes[upto]].vertexes) + SumVerts(nodes, upto - 1)

\* the vertexes of all objects written before line i
WrittenBefore(i) == SumVerts(VisitNodes, Cardinality({j \in ObjectLines : j < i}))

Rendered(prims) == SelectSeq(prims, LAMBDA p : ~(p.is_colored = 0 /\ p.offset_to_texture_name = ""))

----------------------------------------------------------------------------
(* C1: every object block holds as many "v" lines as the node has vertexes;   *)
(* every vertex index on a face line is the number of vertexes of the nodes   *)
(* visited before, plus the local index, plus one; and n_verticies_written is *)
(* the number of vertexes of all the nodes written so far (it grows by a      *)
(* node's count once the node's faces are written and is never reset).        *)
C1_GlobalVertexIndex ==
    /\ \A i \in ObjectLines :
         LET node  == objects[NodeNamed(obj_out[i].name)]
             faces == BlockOf(i, "f")
             prims == Rendered(node.primitives)
         IN  /\ Len(BlockOf(i, "v")) = Len(node.vertexes)
             /\ Len(faces) = Len(prims)
             /\ \A f \in 1 .. Len(faces) :
                  /\ Len(faces[f].idx) = Len(prims[f].vertex_index_array)
                  /\ \A j \in 1 .. Len(faces[f].idx) :
                       faces[f].idx[j][1] =
                           WrittenBefore(i) + prims[f].vertex_index_array[j] + 1
    /\ n_verticies_written = SumVerts(VisitNodes, Len(VisitNodes))

\* three objects written, the last one's face numbered past the earlier vertexes
C1_Witness ==
    /\ pc = "gafs"
    /\ FiniteTree
    /\ Len(VisitNodes) = NumNodes
    /\ \E i \in ObjectLines :
         /\ WrittenBefore(i) > 0
         /\ BlockOf(i, "f") # <<>>

(* C2: in a tree, the vertexes of every node are shifted by the sum of the    *)
(* offsets from parent of the node and of its ancestors along child links: a  *)
(* child receives the current node's offset, a sibling what the current node  *)
(* itself received.                                                           *)
C2_OffsetAlongChildLinks ==
    FiniteTree =>
        \A i \in ObjectLines :
            LET n == NodeNamed(obj_out[i].name)
            IN  BlockOf(i, "v") =
                    [j \in 1 .. Len(objects[n].vertexes) |->
                        VertexLine(objects[n].vertexes[j], AccumulatedOffset(n))]

\* a node with a child subtree and a sibling, the sibling's vertexes written
C2_Witness ==
    /\ pc = "gafs"
    /\ FiniteTree
    /\ \E n \in Reach :
         /\ objects[n].offset_to_child_object # 0
         /\ objects[n].offset_to_sibling_object # 0
         /\ objects[objects[n].offset_to_sibling_object].vertexes # <<>>
         /\ \E i \in ObjectLines :
              /\ obj_out[i].name = NameAt(objects[n].offset_to_sibling_object)
              /\ BlockOf(i, "v") # <<>>

IsPrefix(s, t) == Len(s) <= Len(t) /\ SubSeq(t, 1, Len(s)) = s

(* C10: over a finite tree traverse writes the nodes in depth-first order,    *)
(* each once, a child subtree before the sibling subtree, and returns; over   *)
(* links that lead back to a node it never returns: there is always a next    *)
(* step that writes nodes again.                                              *)
C10_TraverseOrderAndCycles ==
    /\ [](FiniteTree => /\ IsPrefix(VisitNodes, Preorder(0))
                        /\ (stack = <<>> => VisitNodes = Preorder(0)))
    /\ (FiniteTree ~> stack = <<>>)
    /\ [](Cyclic => /\ stack # <<>>
                    /\ (Len(VisitOrder) < MaxCalls => ENABLED NextMesh))

\* a cycle, and a node written for the second time
C10_Witness ==
    /\ Cyclic
    /\ \E i, j \in 1 .. Len(VisitNodes) : i < j /\ VisitNodes[i] = VisitNodes[j]

----------------------------------------------------------------------------
EmptyAcc == [lines |-> <<>>, colours |-> <<>>, textures |-> <<>>]

RECURSIVE SumRendered(_, _)
SumRendered(nodes, upto) ==
    IF upto = 0 THEN 0
    ELSE Len(Rendered(objects[nodes[upto]].primitives)) + SumRendered(nodes, upto - 1)

(* C3: a primitive with no texture name and is_colored = 0 writes no usemtl   *)
(* line and no face line and adds nothing to used_textures or used_colours:   *)
(* the material and face lines of every object are those of its other         *)
(* primitives alone, two per such primitive, and the two lists hold one entry *)
(* per such primitive.                                                        *)
C3_SkippedPrimitive ==
    /\ \A i \in ObjectLines :
         LET prims == Rendered(objects[NodeNamed(obj_out[i].name)].primitives)
         IN  /\ BlockOfKinds(i, {"usemtl", "f"}) =
                    WritePrimitives(prims, 1, WrittenBefore(i), EmptyAcc).lines
             /\ Len(BlockOf(i, "usemtl")) = Len(prims)
             /\ Len(BlockOf(i, "f")) = Len(prims)
    /\ Len(used_colours) + Len(used_textures) = SumRendered(VisitNodes, Len(VisitNodes))

\* an object written whose primitives hold a skipped one before a rendered one
C3_Witness ==
    \E i \in ObjectLines :
        LET prims == objects[NodeNamed(obj_out[i].name)].primitives
        IN  /\ Len(prims) >= 2
            /\ prims[1].is_colored = 0 /\ prims[1].offset_to_texture_name = ""
            /\ prims[1].vertex_index_array # <<>>
            /\ Rendered(prims) # <<>>
            /\ BlockOf(i, "f") # <<>>

\* the usemtl line that governs line j of obj_out (the one right before a face)
IsTextureLine(l) == l.k = "usemtl" /\ l.name # ""
IsColourLine(l) == l.k = "usemtl" /\ l.name = ""

(* C5: on every face line a texture-coordinate index goes with a vertex index *)
(* only when the face's material is a texture, and the one at position k      *)
(* (from 0) is (k mod 4) + 1, one of the four vt lines.                       *)
C5_TextureCoordinateIndex ==
    \A j \in 2 .. Len(obj_out) :
        obj_out[j].k = "f" =>
            /\ IsColourLine(obj_out[j - 1]) =>
                   \A k \in 1 .. Len(obj_out[j].idx) : Len(obj_out[j].idx[k]) = 1
            /\ IsTextureLine(obj_out[j - 1]) =>
                   \A k \in 1 .. Len(obj_out[j].idx) :
                       /\ Len(obj_out[j].idx[k]) = 2
                       /\ obj_out[j].idx[k][2] = ((k - 1) % 4) + 1

NewmtlLines == SelectSeq(mtl_out, LAMBDA l : l.k = "newmtl")

DistinctEntries(s) == \A i, j \in 1 .. Len(s) : s[i] = s[j] => i = j

ColoursBeforeTextures(s) ==
    \A i, j \in 1 .. Len(s) : (s[i].name = "" /\ s[j].name # "") => i < j

(* C6 as stated: the material library holds one newmtl block per distinct     *)
(* colour and per distinct texture used, no material name twice, the colour   *)
(* blocks first.                                                              *)
C6_OneBlockPerDistinctMaterial ==
    pc = "gafs" =>
        /\ DistinctEntries(NewmtlLines)
        /\ ColoursBeforeTextures(NewmtlLines)
        /\ {l.rgb : l \in {NewmtlLines[i] : i \in 1 .. Len(NewmtlLines)}} \ {<<>>}
             = {l.rgb : l \in {obj_out[i] : i \in {j \in 1 .. Len(obj_out) : IsColourLine(obj_out[j])}}}
        /\ {l.name : l \in {NewmtlLines[i] : i \in 1 .. Len(NewmtlLines)}} \ {""}
             = {l.name : l \in {obj_out[i] : i \in {j \in 1 .. Len(obj_out) : IsTextureLine(obj_out[j])}}}

AsNewmtl(s) == [i \in 1 .. Len(s) |-> [s[i] EXCEPT !.k = "newmtl"]]

(* C6 as amended: the material library holds one newmtl block per face        *)
(* written, in the order of the usemtl lines: those of the coloured faces     *)
(* first, then those of the textured faces.                                   *)
C6_OneBlockPerFace ==
    pc = "gafs" =>
        /\ NewmtlLines = AsNewmtl(SelectSeq(obj_out, IsColourLine))
                            \o AsNewmtl(SelectSeq(obj_out, IsTextureLine))
        /\ ColoursBeforeTextures(NewmtlLines)
        /\ Len(mtl_out) = 3 * Len(NewmtlLines)

\* a texture used by a face of the root and by a face of its child
C6_Witness ==
    /\ pc = "gafs"
    /\ \E p \in 1 .. Len(objects[0].primitives), q \in 1 .. Len(objects[1].primitives) :
         /\ objects[0].primitives[p].offset_to_texture_name = "T1"
         /\ objects[1].primitives[q].offset_to_texture_name = "T1"
    /\ Len(SelectSeq(NewmtlLines, LAMBDA l : l.name = "T1")) >= 2

----------------------------------------------------------------------------
\* the frame of the one entry of the one file
TheFrame == FrameOf(gaf_folder.files[1][1])

ImageRead == last_image.status # "none"

\* line-byte-count 3, then 0x05, 0x0E 0x07, 0x00 0x03
C4_Scanline == Scanline(3, << <<5>>, <<14, 7>> , <<0, 3>> >>)

C4_Input ==
    /\ ImageRead
    /\ TheFrame.compressed # 0 /\ TheFrame.width = 8 /\ TheFrame.height = 1
    /\ TheFrame.buf.bytes = C4_Scanline

(* C4 as stated: the row of width 8 with the skip 0x05, the repeat 0x0E 0x07  *)
(* and the literal 0x00 0x03 decodes to [0,0,7,7,7,7,7,3].                    *)
C4_DecodedRowAsStated ==
    C4_Input => last_image.raw = <<0, 0, 7, 7, 7, 7, 7, 3>>

(* C4 as amended: that row decodes to [0,0,7,7,7,7,3]: the skip gives 2 zero  *)
(* pixels, the repeat (0x0E >> 2) + 1 = 4 pixels of index 7, the literal 1    *)
(* pixel of index 3; all three control bytes are consumed; and the row being  *)
(* one index short of the width 8, read_image panics on raw[7] and returns no *)
(* image.                                                                     *)
C4_DecodedRow ==
    C4_Input =>
        /\ last_image.raw = <<0, 0, 7, 7, 7, 7, 3>>
        /\ last_image.lines = << [line_bytes |-> 3, decoded |-> 3, pixels |-> 7,
                                  complete |-> TRUE] >>
        /\ last_image.cursor = 7
        /\ last_image.status = "panic"
        /\ pc = "panic"

C4_Witness == C4_Input /\ Len(last_image.raw) = 7

\* the buffer with the first scanline's count set to c
WithLineBytes(buf, cursor, c) ==
    [buf EXCEPT !.bytes = [j \in 1 .. Len(buf.bytes) |->
                             IF j = cursor + 1 THEN c % 256
                             ELSE IF j = cursor + 2 THEN c \div 256
                             ELSE buf.bytes[j]]]

(* C8 as stated: the value of the line-byte-count has no influence: with any  *)
(* other count in the first scanline the same indexes are decoded and the     *)
(* cursor ends at the same place.                                             *)
C8_CountIgnored ==
    (ImageRead /\ TheFrame.compressed # 0) =>
        \A c \in 0 .. MaxTokens :
            LET other == read_image(WithLineBytes(TheFrame.buf, TheFrame.frame_data_pointer, c),
                                    TheFrame.frame_data_pointer, TheFrame.width,
                                    TheFrame.height, TheFrame.compressed, overflow_checks)
            IN  other.raw = last_image.raw /\ other.cursor = last_image.cursor

(* C8 as amended: the line-byte-count is the number of control bytes decoded  *)
(* for the scanline: a scanline ends when that many have been decoded,        *)
(* whatever number of pixels they gave, and only a read past the data stops   *)
(* it sooner; the cursor is past the count and past what those control bytes  *)
(* read.                                                                      *)
C8_CountBoundsControlBytes ==
    (ImageRead /\ TheFrame.compressed # 0) =>
        /\ \A l \in 1 .. Len(last_image.lines) :
             LET line == last_image.lines[l]
             IN  /\ line.complete => line.decoded = line.line_bytes
                 /\ ~line.complete => (line.decoded < line.line_bytes /\ l = Len(last_image.lines)
                                       /\ last_image.status = "panic")
        /\ (\A l \in 1 .. Len(last_image.lines) : last_image.lines[l].complete) =>
               last_image.cursor >= TheFrame.frame_data_pointer + 2 * Len(last_image.lines)
        /\ last_image.status = "ok" => Len(last_image.lines) = TheFrame.height

\* an image returned whose first scanline ended short of the width and whose
\* second made up for it
C8_Witness ==
    /\ ImageRead /\ TheFrame.compressed # 0
    /\ last_image.status = "ok"
    /\ Len(last_image.lines) = 2
    /\ last_image.lines[1].pixels < TheFrame.width
    /\ last_image.lines[1].decoded = last_image.lines[1].line_bytes
    /\ last_image.lines[1].decoded > 0

(* C9: with the compression flag 0 and the data there, read_image reads       *)
(* width * height index bytes at the cursor and sets width * height pixels,   *)
(* pixel (x, y) to PALETTE[data[y * width + x]], also when the product is     *)
(* 65536 or more.                                                             *)
C9_RawImageSize ==
    (/\ ImageRead
     /\ TheFrame.compressed = 0
     /\ CanRead(TheFrame.buf, TheFrame.frame_data_pointer, TheFrame.width * TheFrame.height)) =>
        /\ last_image.status = "ok"
        /\ Len(last_image.raw) = TheFrame.width * TheFrame.height
        /\ Len(last_image.pixels) = TheFrame.width * TheFrame.height
        /\ \A j \in 1 .. Len(last_image.pixels) :
             last_image.pixels[j] =
                 [x |-> (j - 1) % TheFrame.width, y |-> (j - 1) \div TheFrame.width,
                  colour |-> PALETTE(ByteAt(TheFrame.buf, TheFrame.frame_data_pointer + j - 1))]

----------------------------------------------------------------------------
\* where the entries of a name are: <<file, entry>>
EntriesNamed(name) ==
    {at \in (1 .. Len(gaf_folder.files)) \X (1 .. MaxEntries + 1) :
        /\ at[2] <= Len(gaf_folder.files[at[1]])
        /\ gaf_folder.files[at[1]][at[2]].name = name}

LastFileWith(name) ==
    CHOOSE f \in {at[1] : at \in EntriesNamed(name)} :
        \A at \in EntriesNamed(name) : at[1] <= f

FirstIn(f, name) ==
    CHOOSE e \in {at[2] : at \in {x \in EntriesNamed(name) : x[1] = f}} :
        \A at \in EntriesNamed(name) : at[1] = f => e <= at[2]

LastIn(f, name) ==
    CHOOSE e \in {at[2] : at \in {x \in EntriesNamed(name) : x[1] = f}} :
        \A at \in EntriesNamed(name) : at[1] = f => at[2] <= e

BmpOf(at) ==
    LET entry == gaf_folder.files[at[1]][at[2]]
    IN  Bmp(entry.name, FrameOf(entry).width, FrameOf(entry).height,
            ImageOf(entry, overflow_checks).pixels)

NeededNames == {used_textures[i] : i \in 1 .. Len(used_textures)}

(* C7 as stated: once all files are processed, the image left under a needed  *)
(* name is the one of the first entry of that name in the last file that      *)
(* holds the name.                                                            *)
C7_FirstEntryOfLastFile ==
    pc = "done" =>
        \A name \in NeededNames :
            EntriesNamed(name) # {} =>
                BmpOf(<<LastFileWith(name), FirstIn(LastFileWith(name), name)>>)
                    \in textures_folder

(* C7 as amended: once all files are processed, the image left under a needed *)
(* name is the one of the last entry of that name in the last file that holds *)
(* the name: every entry of the name is saved over the one before, within a   *)
(* file as across files; a name no file holds is left without an image, and   *)
(* so is every name that is not needed.                                       *)
C7_LastEntryOfLastFile ==
    pc = "done" =>
        /\ \A name \in NeededNames :
             IF EntriesNamed(name) # {} /\ gaf_folder.readable
             THEN {f \in textures_folder : f.name = name}
                    = { BmpOf(<<LastFileWith(name), LastIn(LastFileWith(name), name)>>) }
             ELSE {f \in textures_folder : f.name = name} = {}
        /\ \A f \in textures_folder : f.name \in NeededNames

\* two files that hold the name, the last one twice and with different images
C7_Witness ==
    /\ pc = "done"
    /\ Len(gaf_folder.files) = 2
    /\ \E at \in EntriesNamed("T1") : at[1] = 1
    /\ \E at \in EntriesNamed("T1") : at[1] = 2
    /\ FirstIn(2, "T1") # LastIn(2, "T1")
    /\ BmpOf(<<2, FirstIn(2, "T1")>>) # BmpOf(<<2, LastIn(2, "T1")>>)
    /\ BmpOf(<<2, LastIn(2, "T1")>>) \in textures_folder

====
